---- MODULE Spec2Model ----
(***************************************************************************)
(* NutriGuide API (src/main.py): the nutrition table loaded at startup,    *)
(* the exact and fuzzy food lookups, the meal aggregation of /log_meal and *)
(* the two JSON log files behind get_log / save_log.                       *)
(*                                                                         *)
(* Strings that the code transforms (food names, quantities given as text) *)
(* are sequences of one-character strings, so that lower(), strip() and    *)
(* replace('_', ' ') are computed.  A log file is the sequence of tokens   *)
(* json.dump writes ("[", entries separated by ",", "]"); json.load parses *)
(* it back and fails on anything else.  Floats are integers.               *)
(***************************************************************************)
EXTENDS Integers, Sequences, FiniteSets, TLC

\* ------------------------------------------------------------------ bounds
\* Most items in one /log_meal request.
MaxItems == 2
\* Most entries a log file is allowed to grow to.
MaxLog == 2
\* Server processes sharing the log files, and append requests sent to them.
NumWorkers == 2
MaxRequests == 3

\* ------------------------------------------------------------------ values
\* Python values whose type the code depends on: a str (its characters), a
\* number, None, and a key that a dict does not have.
Str(s) == [kind |-> "str", s |-> s]
Num(n) == [kind |-> "num", n |-> n]
NoneV == [kind |-> "None"]
Missing == [kind |-> "missing"]
NaN == [kind |-> "NaN"]
MEAL_LOG_FILE == "meal_log.json"
FEEDBACK_LOG_FILE == "feedback_log.json"
LogFiles == {MEAL_LOG_FILE, FEEDBACK_LOG_FILE}

\* ----------------------------------------------------------------- strings
\* str.lower() on one character.
LowerChar(c) ==
  CASE c = "R" -> "r"
    [] c = "I" -> "i"
    [] OTHER -> c

\* str.lower()
lower(s) == [k \in 1..Len(s) |-> LowerChar(s[k])]

RECURSIVE lstrip(_)
lstrip(s) == IF s # <<>> /\ Head(s) = " " THEN lstrip(Tail(s)) ELSE s

RECURSIVE rstrip(_)
rstrip(s) ==
  IF s # <<>> /\ s[Len(s)] = " " THEN rstrip(SubSeq(s, 1, Len(s) - 1)) ELSE s

\* str.strip()
strip(s) == rstrip(lstrip(s))

\* str.replace('_', ' ')
replace_underscore(s) == [k \in 1..Len(s) |-> IF s[k] = "_" THEN " " ELSE s[k]]

\* -------------------------------------------------------- nutrition table
\* The CSV files the server may be started with: no file at all, a header
\* with no rows, a file whose names carry capitals and surrounding blanks
\* and whose last row has a non-numeric Calories cell, and a file with that
\* last row alone.
CsvRows ==
  << [Food_Item |-> <<"R", "i", " ">>, Calories |-> Num(130),
      Protein_g |-> Num(3), Fat_g |-> Num(1), Carbs_g |-> Num(28)],
     [Food_Item |-> <<"d", " ", "a">>, Calories |-> Num(100),
      Protein_g |-> Num(7), Fat_g |-> Num(2), Carbs_g |-> Num(15)],
     [Food_Item |-> <<"z">>, Calories |-> NaN,
      Protein_g |-> Num(1), Fat_g |-> Num(1), Carbs_g |-> Num(1)] >>
CsvFiles ==
  { [exists |-> FALSE, rows |-> <<>>],
    [exists |-> TRUE, rows |-> <<>>],
    [exists |-> TRUE, rows |-> CsvRows],
    [exists |-> TRUE, rows |-> SubSeq(CsvRows, 3, 3)] }

nutritional_cols(row) ==
  <<row.Calories, row.Protein_g, row.Fat_g, row.Carbs_g>>

\* dropna(subset=nutritional_cols): a row is kept when none of its four
\* nutritional cells is NaN.
dropna_keeps(row) == \A k \in 1..4 : nutritional_cols(row)[k].kind = "num"

\* The Food_Item_Lower column of one row.
Food_Item_Lower(row) == strip(lower(row.Food_Item))

\* AIModels.load_models, the nutrition part.  nutrition_df stays None when
\* the file is missing (loaded = FALSE); otherwise it holds the rows that
\* survive dropna, each with its Food_Item_Lower.
load_models(csv) ==
  IF ~csv.exists THEN [loaded |-> FALSE, rows |-> <<>>]
  ELSE LET kept == SelectSeq(csv.rows, dropna_keeps)
       IN  [loaded |-> TRUE,
            rows |-> [k \in 1..Len(kept) |->
              [Food_Item_Lower |-> Food_Item_Lower(kept[k]),
               Calories |-> kept[k].Calories.n,
               Protein_g |-> kept[k].Protein_g.n,
               Fat_g |-> kept[k].Fat_g.n,
               Carbs_g |-> kept[k].Carbs_g.n]]]

\* ai.food_list_for_fuzzy_search
food_list_for_fuzzy_search(df) ==
  [k \in 1..Len(df.rows) |-> df.rows[k].Food_Item_Lower]

\* --------------------------------------------------------------- log files
\* A file is absent, or holds a sequence of tokens: the brackets and commas
\* of a JSON array and its entries.
Tok(t) == [tok |-> t]
EntryTok(e) == [tok |-> "entry", val |-> e]
AbsentFile == [exists |-> FALSE, toks |-> <<>>]
FileOf(toks) == [exists |-> TRUE, toks |-> toks]

\* The entries written one after another, with no comma between them.
dump_entries_unseparated(log) == [k \in 1..Len(log) |-> EntryTok(log[k])]

RECURSIVE dump_entries(_)
dump_entries(log) ==
  IF log = <<>> THEN <<>>
  ELSE IF Len(log) = 1 THEN <<EntryTok(log[1])>>
  ELSE <<EntryTok(log[1]), Tok(",")>> \o dump_entries(Tail(log))

\* The text of an array that is never closed.
json_dump_unclosed(log) == <<Tok("[")>> \o dump_entries(log)

\* json.dump(log, f): the text of a JSON array.
json_dump(log) == <<Tok("[")>> \o dump_entries(log) \o <<Tok("]")>>

JsonFailed == [ok |-> FALSE, val |-> <<>>]

\* The text between the brackets: entry ("," entry)*.
RECURSIVE parse_entries(_)
parse_entries(toks) ==
  IF toks = <<>> THEN JsonFailed
  ELSE IF Head(toks).tok # "entry" THEN JsonFailed
  ELSE IF Len(toks) = 1 THEN [ok |-> TRUE, val |-> <<toks[1].val>>]
  ELSE IF toks[2].tok # "," THEN JsonFailed
  ELSE LET rest == parse_entries(SubSeq(toks, 3, Len(toks)))
       IN  IF ~rest.ok THEN JsonFailed
           ELSE [ok |-> TRUE, val |-> <<toks[1].val>> \o rest.val]

\* json.load(f): the list, or a json.JSONDecodeError (ok = FALSE).
json_load(toks) ==
  IF Len(toks) < 2 \/ toks[1].tok # "[" \/ toks[Len(toks)].tok # "]"
  THEN JsonFailed
  ELSE IF Len(toks) = 2 THEN [ok |-> TRUE, val |-> <<>>]
  ELSE parse_entries(SubSeq(toks, 2, Len(toks) - 1))

\* get_log(file_path), given the file: [] on FileNotFoundError and on
\* JSONDecodeError.
get_log(file) ==
  IF ~file.exists THEN <<>>
  ELSE IF ~json_load(file.toks).ok THEN <<>>
  ELSE json_load(file.toks).val

\* The entry put at the front of the list.
log_append_front(log, entry) == <<entry>> \o log

\* log.append(entry)
log_append(log, entry) == Append(log, entry)

\* save_log(file_path, entry), given the file: the file it leaves.
save_log(file, entry) == FileOf(json_dump(log_append(get_log(file), entry)))

\* ------------------------------------------------------------ fuzzy lookup
\* thefuzz is a library: its score of a query against a choice is any
\* number from 0 to 100, sampled here on both sides of the two thresholds.
\* What is kept of it: strings equal after its own processing (lower case,
\* trimmed) score 100.
RESOLVE_THRESHOLD == 85
SUGGEST_MIN_SCORE == 75
SUGGEST_LIMIT == 4
ScoreSamples == {SUGGEST_MIN_SCORE - 1, SUGGEST_MIN_SCORE,
                 RESOLVE_THRESHOLD, 100}

full_process(s) == strip(lower(s))

ScoreFunctions(query, choices) ==
  { sc \in [1..Len(choices) -> ScoreSamples] :
      \A k \in 1..Len(choices) :
        full_process(query) = full_process(choices[k]) => sc[k] = 100 }

\* The index of the best choice among idx: highest score, first on a tie.
BestOf(sc, idx) ==
  CHOOSE k \in idx : \A j \in idx : sc[j] < sc[k] \/ (sc[j] = sc[k] /\ k <= j)

\* fuzzy_process.extract(query, choices, limit): the indices of the choices
\* by descending score, ties in list order, at most limit of them.
RECURSIVE extract(_, _, _)
extract(sc, idx, limit) ==
  IF idx = {} \/ limit = 0 THEN <<>>
  ELSE LET b == BestOf(sc, idx)
       IN  <<b>> \o extract(sc, idx \ {b}, limit - 1)

Raised(exc) == [raised |-> TRUE, exc |-> exc]
Returned(v) == [raised |-> FALSE, value |-> v]

\* find_food_in_db_fuzzy without its guard on the name.
find_food_in_db_fuzzy_unguarded(df, food_name, sc) ==
  IF ~df.loaded THEN Returned(NoneV)
  ELSE LET choices == food_list_for_fuzzy_search(df)
       IN  IF choices = <<>> THEN Raised("TypeError")
           ELSE LET b == BestOf(sc, 1..Len(choices))
                    rows == SelectSeq(df.rows,
                              LAMBDA r : r.Food_Item_Lower = choices[b])
                IN  IF sc[b] >= RESOLVE_THRESHOLD
                    THEN Returned(rows[1]) ELSE Returned(NoneV)

\* find_food_in_db_fuzzy(food_name, threshold=85).  extractOne returns None
\* for an empty list of choices, and unpacking None is a TypeError.
find_food_in_db_fuzzy(df, food_name, sc) ==
  IF ~df.loaded \/ food_name.kind # "str" \/ food_name.s = <<>>
  THEN Returned(NoneV)
  ELSE LET choices == food_list_for_fuzzy_search(df)
       IN  IF choices = <<>> THEN Raised("TypeError")
           ELSE LET b == BestOf(sc, 1..Len(choices))
                    best_match == choices[b]
                    rows == SelectSeq(df.rows,
                              LAMBDA r : r.Food_Item_Lower = best_match)
                IN  IF sc[b] >= RESOLVE_THRESHOLD
                    THEN Returned(rows[1]) ELSE Returned(NoneV)

\* -------------------------------------------------------- meal aggregation
\* dict.get(key, default)
dict_get(v, default) == IF v.kind = "missing" THEN default ELSE v

\* One decimal digit.
Digit(c) ==
  CASE c = "1" -> 1
    [] c = "2" -> 2
    [] c = "3" -> 3
    [] OTHER -> -1

\* float(x): a number is itself; a str is trimmed and parsed, and anything
\* but a digit is a ValueError; None is a TypeError.
float(x) ==
  CASE x.kind = "num" -> Returned(x.n)
    [] x.kind = "str" ->
         LET t == strip(x.s)
         IN  IF Len(t) = 1 /\ Digit(t[1]) >= 0 THEN Returned(Digit(t[1]))
             ELSE Raised("ValueError")
    [] OTHER -> Raised("TypeError")

Totals(cal, prot, fat, carbs) ==
  [total_calories |-> cal, total_protein |-> prot, total_fat |-> fat,
   total_carbs |-> carbs]
ZeroTotals == Totals(0, 0, 0, 0)

\* A turn of the loop that raises on a name without a match.
log_meal_item_strict(df, item, acc) ==
  LET food_name == dict_get(item.item, NoneV)
      quantity == float(dict_get(item.quantity, Num(1)))
  IN  IF quantity.raised THEN quantity
      ELSE IF ~df.loaded THEN Raised("TypeError")
      ELSE IF food_name.kind # "str" THEN Raised("AttributeError")
      ELSE LET result == SelectSeq(df.rows,
                 LAMBDA r : r.Food_Item_Lower = lower(food_name.s))
           IN  IF result # <<>>
               THEN Returned(Totals(
                      acc.total_calories + result[1].Calories * quantity.value,
                      acc.total_protein + result[1].Protein_g * quantity.value,
                      acc.total_fat + result[1].Fat_g * quantity.value,
                      acc.total_carbs + result[1].Carbs_g * quantity.value))
               ELSE Raised("IndexError")

\* One turn of the loop of log_meal: the totals after the item, or the
\* exception it raises.
log_meal_item(df, item, acc) ==
  LET food_name == dict_get(item.item, NoneV)
      quantity == float(dict_get(item.quantity, Num(1)))
  IN  IF quantity.raised THEN quantity
      ELSE IF ~df.loaded THEN Raised("TypeError")
      ELSE IF food_name.kind # "str" THEN Raised("AttributeError")
      ELSE LET result == SelectSeq(df.rows,
                 LAMBDA r : r.Food_Item_Lower = lower(food_name.s))
           IN  IF result # <<>>
               THEN LET food_data == result[1]
                        q == quantity.value
                    IN  Returned(Totals(
                          acc.total_calories + food_data.Calories * q,
                          acc.total_protein + food_data.Protein_g * q,
                          acc.total_fat + food_data.Fat_g * q,
                          acc.total_carbs + food_data.Carbs_g * q))
               ELSE Returned(acc)

\* The loop of log_meal from item k on, stopped by the first exception.
RECURSIVE log_meal_loop(_, _, _, _)
log_meal_loop(df, items, k, acc) ==
  IF k > Len(items) THEN Returned(acc)
  ELSE LET step == log_meal_item(df, items[k], acc)
       IN  IF step.raised THEN step
           ELSE log_meal_loop(df, items, k + 1, step.value)

\* The advice string: the number of items and the calories, rounded.
advice_of(items, totals) ==
  [items |-> Len(items), calories |-> totals.total_calories]

\* The entry log_meal saves.
meal_entry(ts, food_name, totals, advice) ==
  [timestamp |-> ts, food_name |-> food_name,
   total_calories |-> totals.total_calories,
   total_protein |-> totals.total_protein,
   total_fat |-> totals.total_fat,
   total_carbs |-> totals.total_carbs, advice |-> advice]

\* The entry log_feedback saves.
feedback_entry(ts, guess, correction, image) ==
  [timestamp |-> ts, original_guess |-> guess,
   user_correction |-> correction, image_filename |-> image]

\* ------------------------------------------------------------------ export
expected_cols ==
  <<"timestamp", "food_name", "quantity", "total_calories", "total_protein",
    "total_fat", "total_carbs", "advice">>

\* The keys a stored entry may have, in the order it was written with.
KeyOrder ==
  <<"timestamp", "food_name", "total_calories", "total_protein",
    "total_fat", "total_carbs", "advice", "quantity", "note">>

InSeq(x, seq) == \E k \in 1..Len(seq) : seq[k] = x

\* pd.DataFrame(meal_history).columns: the keys of the entries, each at its
\* first appearance.
RECURSIVE df_columns(_, _)
df_columns(history, cols) ==
  IF history = <<>> THEN cols
  ELSE LET keys == SelectSeq(KeyOrder,
                     LAMBDA c : c \in DOMAIN Head(history) /\ ~InSeq(c, cols))
       IN  df_columns(Tail(history), cols \o keys)

\* for col in expected_cols: if col not in df.columns: df[col] = 'N/A'
RECURSIVE add_missing_cols(_, _)
add_missing_cols(cols, k) ==
  IF k > Len(expected_cols) THEN cols
  ELSE add_missing_cols(
         IF InSeq(expected_cols[k], cols) THEN cols
         ELSE Append(cols, expected_cols[k]), k + 1)

\* The columns left in the order the frame has them.
select_unordered(cols) == cols

\* df = df[expected_cols]
select_expected(cols) == SelectSeq(expected_cols, LAMBDA c : InSeq(c, cols))

\* The header line of the CSV export_history returns.
export_header(history) ==
  select_expected(add_missing_cols(df_columns(history, <<>>), 1))

\* One cell of the CSV: the entry's value, or 'N/A' where the entry (or
\* every entry) lacks the column.
Cell(e, c) == IF c \in DOMAIN e THEN <<e[c]>> ELSE <<>>
export_rows(history) ==
  [k \in 1..Len(history) |->
     [j \in 1..Len(export_header(history)) |->
        Cell(history[k], export_header(history)[j])]]

\* ------------------------------------------------------------------- state
VARIABLES
  ai,      \* the AIModels object: vit_classifier, nutrition_df, text_generator
  files,   \* the two log files on disk
  last,    \* the last request handled and its response
  hist,    \* per file: what it held at startup, the entries given to save_log
  workers, \* per server process: where it stands in a save_log
  raced    \* whether two save_log calls on one file have overlapped

vars == <<ai, files, last, hist, workers, raced>>

\* datetime.now().isoformat(): a string the model does not look into.
Timestamp == "isoformat"

\* An entry written by an earlier version of the server: no totals and no
\* advice, and a quantity.
LegacyEntry == [timestamp |-> Timestamp, food_name |-> "pizza", quantity |-> 2]

\* What the server is started with: the nutrition CSV and the two model
\* directories, present or not.
StartConfigs ==
  { [csv |-> [exists |-> TRUE, rows |-> CsvRows], vit |-> TRUE, text |-> TRUE],
    [csv |-> [exists |-> FALSE, rows |-> <<>>], vit |-> FALSE, text |-> FALSE],
    [csv |-> [exists |-> TRUE, rows |-> <<>>], vit |-> TRUE, text |-> FALSE],
    [csv |-> [exists |-> TRUE, rows |-> SubSeq(CsvRows, 3, 3)],
     vit |-> FALSE, text |-> TRUE] }

\* AIModels.__init__
AIModels(cfg) ==
  [vit_classifier |-> cfg.vit, nutrition_df |-> load_models(cfg.csv),
   text_generator |-> cfg.text]

\* What the log files hold at startup: nothing, a file cut short or empty,
\* or a log of an earlier run.
StartFiles ==
  { [f \in LogFiles |-> AbsentFile],
    [f \in LogFiles |->
       IF f = MEAL_LOG_FILE
       THEN FileOf(<<Tok("["), EntryTok(LegacyEntry)>>) ELSE FileOf(<<>>)],
    [f \in LogFiles |->
       IF f = MEAL_LOG_FILE
       THEN FileOf(json_dump(<<LegacyEntry>>)) ELSE AbsentFile] }

NoRequest == [op |-> "none", status |-> 0, req |-> <<>>, body |-> <<>>]
Idle == [pc |-> "idle"]
Workers == 1..NumWorkers

InitWith(configs) ==
  /\ \E cfg \in configs : ai = AIModels(cfg)
  /\ files \in StartFiles
  /\ last = NoRequest
  /\ hist = [f \in LogFiles |-> [start |-> files[f], saved |-> <<>>]]
  /\ workers = [w \in Workers |-> Idle]
  /\ raced = FALSE

Response(op, status, req, body) ==
  [op |-> op, status |-> status, req |-> req, body |-> body]

\* A log_meal that saves whatever quick_check says.
should_save_always(request) == TRUE

\* if not request.quick_check
should_save(request) == ~request.quick_check

\* log_feedback saving to the meal log.
log_feedback_file_meal == MEAL_LOG_FILE

\* The file log_feedback saves to.
log_feedback_file == FEEDBACK_LOG_FILE

\* The file and the history after save_log(f, entry).
Saved(f, entry) ==
  /\ files' = [files EXCEPT ![f] = save_log(@, entry)]
  /\ hist' = [hist EXCEPT ![f].saved = Append(@, entry)]

\* ---------------------------------------------------------------- requests
ItemMatched == [item |-> Str(<<"r", "I">>), quantity |-> Missing]
ItemTextQuantity ==
  [item |-> Str(<<"d", " ", "a">>), quantity |-> Str(<<" ", "3">>)]
ItemBlankName == [item |-> Str(<<" ", "r", "i">>), quantity |-> Num(2)]
ItemUnknown == [item |-> Str(<<"z">>), quantity |-> Num(2)]
ItemBadQuantity == [item |-> Str(<<"r", "I">>), quantity |-> Str(<<"x">>)]
ItemNoName == [item |-> Missing, quantity |-> Num(2)]

MealItems ==
  { ItemMatched, ItemTextQuantity, ItemBlankName, ItemUnknown,
    ItemBadQuantity, ItemNoName }

ItemLists(items) == UNION { [1..n -> items] : n \in 0..MaxItems }

\* The bodies of POST /log_meal: one that pydantic rejects (a required
\* field is missing), and the well-formed ones over the given items.
LogMealRequests(items, quick) ==
  { [valid |-> FALSE, quick_check |-> qc, meal_items |-> <<>>,
     image_food_name |-> "Your Meal"] : qc \in quick }
  \cup
  { [valid |-> TRUE, quick_check |-> qc, meal_items |-> list,
     image_food_name |-> "Your Meal"] :
      qc \in quick, list \in ItemLists(items) }

FoodQueries ==
  { Str(<<>>), Str(<<"R", "I">>), Str(<<"d", "_", "a">>),
    Str(<<" ", "r", "i">>), Str(<<"z">>) }

FeedbackRequests ==
  { [original_guess |-> "pizza", user_correction |-> "dal",
     image_filename |-> "a.jpg"] }

\* --------------------------------------------------------------- endpoints
\* GET /get_daily_tip
get_daily_tip_endpoint ==
  /\ last' = Response("get_daily_tip", 200, <<>>,
               IF ~ai.text_generator THEN "Welcome!" ELSE "generated")
  /\ UNCHANGED <<ai, files, hist, workers, raced>>

\* POST /analyze_image: the classifier labels the image or raises on it.
analyze_image_endpoint ==
  /\ \E readable \in BOOLEAN :
       last' =
         IF ~ai.vit_classifier
         THEN Response("analyze_image", 503, readable, "unavailable")
         ELSE IF readable
         THEN Response("analyze_image", 200, readable, "label")
         ELSE Response("analyze_image", 500, readable, "Failed to analyze")
  /\ UNCHANGED <<ai, files, hist, workers, raced>>

\* POST /suggest
suggest_food_endpoint(queries) ==
  /\ \E food_name \in queries :
       IF ~ai.nutrition_df.loaded \/ food_name.s = <<>>
       THEN last' = Response("suggest", 400, food_name,
                      "Food name is required.")
       ELSE LET choices == food_list_for_fuzzy_search(ai.nutrition_df)
            IN  \E sc \in ScoreFunctions(lower(food_name.s), choices) :
                  LET suggestions ==
                        extract(sc, 1..Len(choices), SUGGEST_LIMIT)
                      high == SelectSeq(suggestions,
                                LAMBDA k : sc[k] >= SUGGEST_MIN_SCORE)
                  IN  last' = Response("suggest", 200, food_name,
                                [k \in 1..Len(high) |-> choices[high[k]]])
  /\ UNCHANGED <<ai, files, hist, workers, raced>>

\* A call of find_food_in_db_fuzzy with the default threshold.
resolve(queries) ==
  /\ \E food_name \in queries :
       LET choices == food_list_for_fuzzy_search(ai.nutrition_df)
           normalized_name == replace_underscore(strip(lower(food_name.s)))
       IN  \E sc \in ScoreFunctions(normalized_name, choices) :
             last' = Response("resolve", 0, food_name,
                       find_food_in_db_fuzzy(ai.nutrition_df, food_name, sc))
  /\ UNCHANGED <<ai, files, hist, workers, raced>>

\* POST /log_meal.  An exception that leaves the handler is a 500.
log_meal_endpoint(requests) ==
  \E request \in requests :
    IF ~request.valid
    THEN /\ last' = Response("log_meal", 422, request, "validation error")
         /\ UNCHANGED <<ai, files, hist, workers, raced>>
    ELSE LET sum == log_meal_loop(ai.nutrition_df, request.meal_items, 1,
                      ZeroTotals)
         IN  IF sum.raised
             THEN /\ last' = Response("log_meal", 500, request, sum.exc)
                  /\ UNCHANGED <<ai, files, hist, workers, raced>>
             ELSE LET totals == sum.value
                      advice == advice_of(request.meal_items, totals)
                      body == [food_name |-> request.image_food_name,
                               totals |-> totals, advice |-> advice,
                               meal_breakdown |-> request.meal_items]
                  IN  /\ last' = Response("log_meal", 200, request, body)
                      /\ IF should_save(request)
                         THEN /\ Len(get_log(files[MEAL_LOG_FILE])) < MaxLog
                              /\ Saved(MEAL_LOG_FILE,
                                   meal_entry(Timestamp,
                                     request.image_food_name, totals, advice))
                         ELSE UNCHANGED <<files, hist>>
                      /\ UNCHANGED <<ai, workers, raced>>

\* GET /get_meal_history
get_meal_history_endpoint ==
  /\ last' = Response("get_meal_history", 200, <<>>,
               get_log(files[MEAL_LOG_FILE]))
  /\ UNCHANGED <<ai, files, hist, workers, raced>>

SUMMARY_WINDOW == 30
LastN(seq, n) ==
  IF Len(seq) <= n THEN seq ELSE SubSeq(seq, Len(seq) - n + 1, Len(seq))

\* POST /get_ai_summary
get_ai_summary_endpoint ==
  /\ LET meal_history == get_log(files[MEAL_LOG_FILE])
         recent == LastN(meal_history, SUMMARY_WINDOW)
     IN  last' =
           IF ~ai.text_generator
           THEN Response("get_ai_summary", 503, <<>>, "unavailable")
           ELSE IF meal_history = <<>>
           THEN Response("get_ai_summary", 200, <<>>, "history is empty")
           ELSE IF \E k \in 1..Len(recent) :
                     ~ ({"timestamp", "food_name"} \subseteq DOMAIN recent[k])
           THEN Response("get_ai_summary", 500, <<>>, "KeyError")
           ELSE Response("get_ai_summary", 200, <<>>, "generated")
  /\ UNCHANGED <<ai, files, hist, workers, raced>>

\* POST /log_feedback
log_feedback_endpoint ==
  /\ Len(get_log(files[log_feedback_file])) < MaxLog
  /\ \E feedback \in FeedbackRequests :
       /\ Saved(log_feedback_file,
            feedback_entry(Timestamp, feedback.original_guess,
              feedback.user_correction, feedback.image_filename))
       /\ last' = Response("log_feedback", 200, feedback,
                    "Thank you for your feedback!")
  /\ UNCHANGED <<ai, workers, raced>>

\* GET /export_history
export_history_endpoint ==
  /\ LET meal_history == get_log(files[MEAL_LOG_FILE])
     IN  last' =
           IF meal_history = <<>>
           THEN Response("export_history", 404, <<>>,
                  "No meal history available.")
           ELSE Response("export_history", 200, <<>>,
                  [header |-> export_header(meal_history),
                   rows |-> export_rows(meal_history)])
  /\ UNCHANGED <<ai, files, hist, workers, raced>>

\* ------------------------------------------------------- the whole server
\* One server process, as main.py starts it: uvicorn runs the handlers on
\* one event loop, and they are coroutines with no await in them, so each
\* request is handled to its end before the next is taken.
ServerConfigs == { cfg \in StartConfigs : cfg.vit = cfg.text }
ServerItems == {ItemMatched, ItemBadQuantity}
ServerQueries == {Str(<<>>), Str(<<"R", "I">>)}

Init == InitWith(ServerConfigs)

Next ==
  \/ get_daily_tip_endpoint
  \/ analyze_image_endpoint
  \/ suggest_food_endpoint(ServerQueries)
  \/ resolve(ServerQueries)
  \/ log_meal_endpoint(LogMealRequests(ServerItems, BOOLEAN))
  \/ get_meal_history_endpoint
  \/ get_ai_summary_endpoint
  \/ log_feedback_endpoint
  \/ export_history_endpoint

Spec == Init /\ [][Next]_vars

\* ------------------------------------------- the lookups and the aggregation
\* The lookups and the meal aggregation applied to every input: the
\* requests that compute and store nothing (quick_check is true).
InitLookup == InitWith(StartConfigs)

NextLookup ==
  \/ suggest_food_endpoint(FoodQueries)
  \/ resolve(FoodQueries)
  \/ log_meal_endpoint(LogMealRequests(MealItems, {TRUE}))

SpecLookup == InitLookup /\ [][NextLookup]_vars

\* ------------------------------------------------- several server processes
\* The same application served by several processes (uvicorn --workers N)
\* that share the two log files.  Inside one process a handler still runs
\* to its end before the next request; between processes the three file
\* operations of save_log interleave: get_log reads the file, open(.., 'w')
\* empties it, and json.dump with the close writes the text from the start
\* of the file, over whatever another process has written meanwhile.
WorkerConfigs == { cfg \in StartConfigs : cfg.vit /\ cfg.text }
InitWorkers == InitWith(WorkerConfigs)

\* The text of a file after `toks` is written at its start.
Overlay(old, toks) == toks \o SubSeq(old, Len(toks) + 1, Len(old))

\* What marks the request an entry came from: the name the client gave.
LabelOf(e) ==
  IF "food_name" \in DOMAIN e THEN e.food_name ELSE e.image_filename

InFlight == { w \in Workers : workers[w].pc # "idle" }
Accepted ==
  Len(hist[MEAL_LOG_FILE].saved) + Len(hist[FEEDBACK_LOG_FILE].saved)
    + Cardinality(InFlight)

\* A process takes an append request and runs its handler up to save_log:
\* a log_meal with quick_check false, or a log_feedback.
Accept(w) ==
  /\ workers[w].pc = "idle"
  /\ Accepted < MaxRequests
  /\ \E f \in LogFiles, items \in {<<>>, <<ItemMatched>>} :
       LET label == Accepted + 1
           sum == log_meal_loop(ai.nutrition_df, items, 1, ZeroTotals)
           entry ==
             IF f = MEAL_LOG_FILE
             THEN meal_entry(Timestamp, label, sum.value,
                    advice_of(items, sum.value))
             ELSE feedback_entry(Timestamp, "pizza", "dal", label)
       IN  /\ f = log_feedback_file => items = <<>>
           /\ ~sum.raised
           /\ workers' = [workers EXCEPT ![w] =
                [pc |-> "read", file |-> f, entry |-> entry, log |-> <<>>]]
  /\ UNCHANGED <<ai, files, last, hist, raced>>

\* log = get_log(file_path)
WorkerRead(w) ==
  /\ workers[w].pc = "read"
  /\ workers' = [workers EXCEPT ![w].pc = "open",
                                ![w].log = get_log(files[workers[w].file])]
  /\ raced' = (raced \/ \E v \in Workers \ {w} :
                 /\ workers[v].pc \in {"open", "write"}
                 /\ workers[v].file = workers[w].file)
  /\ UNCHANGED <<ai, files, last, hist>>

\* log.append(entry); open(file_path, 'w')
WorkerOpen(w) ==
  /\ workers[w].pc = "open"
  /\ workers' = [workers EXCEPT ![w].pc = "write",
                   ![w].log = log_append(workers[w].log, workers[w].entry)]
  /\ files' = [files EXCEPT ![workers[w].file] = FileOf(<<>>)]
  /\ UNCHANGED <<ai, last, hist, raced>>

\* json.dump(log, f), the file is closed, and the request returns.
WorkerWrite(w) ==
  /\ workers[w].pc = "write"
  /\ files' = [files EXCEPT ![workers[w].file] =
                 FileOf(Overlay(@.toks, json_dump(workers[w].log)))]
  /\ hist' = [hist EXCEPT ![workers[w].file].saved =
                Append(@, workers[w].entry)]
  /\ last' = Response(IF workers[w].file = MEAL_LOG_FILE
                      THEN "log_meal" ELSE "log_feedback",
                      200, LabelOf(workers[w].entry), "returned")
  /\ workers' = [workers EXCEPT ![w] = Idle]
  /\ UNCHANGED <<ai, raced>>

NextWorkers ==
  \E w \in Workers :
    \/ Accept(w)
    \/ WorkerRead(w)
    \/ WorkerOpen(w)
    \/ WorkerWrite(w)

SpecWorkers == InitWorkers /\ [][NextWorkers]_vars

\* ------------------------------------------------------------------ claims
IsPrefix(a, b) == Len(a) <= Len(b) /\ SubSeq(b, 1, Len(a)) = a
MealLog(fs) == get_log(fs[MEAL_LOG_FILE])
FeedbackLog(fs) == get_log(fs[FEEDBACK_LOG_FILE])
IsTotals(t) ==
  DOMAIN t = {"total_calories", "total_protein", "total_fat", "total_carbs"}

\* C1: a log_meal request that completes returns totals; with quick_check
\* true the meal history is afterwards what it was before, and with
\* quick_check false it is the history before with exactly one entry added
\* at its end, the entry holding the totals returned.
C1_QuickCheckDoesNotPersist ==
  [][ (last'.op = "log_meal" /\ last'.status = 200) =>
        /\ IsTotals(last'.body.totals)
        /\ IF last'.req.quick_check
           THEN MealLog(files') = MealLog(files)
           ELSE /\ Len(MealLog(files')) = Len(MealLog(files)) + 1
                /\ IsPrefix(MealLog(files), MealLog(files'))
                /\ LET added == MealLog(files')[Len(MealLog(files'))]
                   IN  added.total_calories =
                         last'.body.totals.total_calories ]_vars

\* A quick check answered with totals while the history already holds an
\* entry appended by an earlier log_meal.
C1_Witness ==
  /\ last.op = "log_meal" /\ last.status = 200 /\ last.req.quick_check
  /\ last.body.totals.total_calories > 0
  /\ Len(hist[MEAL_LOG_FILE].saved) >= 1
  /\ Len(MealLog(files)) = MaxLog

\* C2: a store that was absent at startup reads back exactly the entries
\* given to save_log, in the order they were given.
C2_RoundTrip ==
  \A f \in LogFiles :
    ~hist[f].start.exists => get_log(files[f]) = hist[f].saved

\* Two entries with different contents saved to a store that started absent.
C2_Witness ==
  /\ ~hist[MEAL_LOG_FILE].start.exists
  /\ Len(hist[MEAL_LOG_FILE].saved) >= 2
  /\ hist[MEAL_LOG_FILE].saved[1] # hist[MEAL_LOG_FILE].saved[2]

\* C3: across every request, what a log file read as before the request is
\* a prefix of what it reads as after it.
C3_LogOnlyGrows ==
  [][ \A f \in LogFiles : IsPrefix(get_log(files[f]), get_log(files'[f])) ]_vars

\* A log of an earlier run that has since been appended to.
C3_Witness ==
  /\ get_log(hist[MEAL_LOG_FILE].start) = <<LegacyEntry>>
  /\ Len(MealLog(files)) >= 2
  /\ Len(FeedbackLog(files)) >= 1

\* The value of a quantity that parses.
QuantityOf(item) == float(dict_get(item.quantity, Num(1))).value
HasValidQuantity(item) == ~float(dict_get(item.quantity, Num(1))).raised
HasName(item) == item.item.kind = "str"

\* The rows of the table whose name equals the lower-cased item name.
ExactMatches(df, item) ==
  { k \in 1..Len(df.rows) : df.rows[k].Food_Item_Lower = lower(item.item.s) }
FirstMatch(df, item) ==
  df.rows[CHOOSE k \in ExactMatches(df, item) :
            \A j \in ExactMatches(df, item) : k <= j]

\* The sum, over the items with an exact match, of quantity times field.
RECURSIVE SumOfMatched(_, _, _)
SumOfMatched(df, items, field) ==
  IF items = <<>> THEN 0
  ELSE LET item == items[Len(items)]
           rest == SumOfMatched(df, SubSeq(items, 1, Len(items) - 1), field)
       IN  IF ExactMatches(df, item) = {} THEN rest
           ELSE rest + QuantityOf(item) * FirstMatch(df, item)[field]

\* C4: with the nutrition table loaded, a log_meal whose items all carry a
\* name and a quantity that parses returns totals that are the sums, over
\* the items with an exact case-insensitive match, of quantity times the
\* record's field; an item without a match adds nothing and fails nothing;
\* the advice counts every item submitted.
C4_TotalsAreSumOfMatched ==
  LET items == last.req.meal_items
      df == ai.nutrition_df
  IN  ( /\ last.op = "log_meal" /\ last.req.valid /\ df.loaded
        /\ \A k \in 1..Len(items) :
             HasName(items[k]) /\ HasValidQuantity(items[k]) )
      => /\ last.status = 200
         /\ last.body.totals.total_calories =
              SumOfMatched(df, items, "Calories")
         /\ last.body.totals.total_protein =
              SumOfMatched(df, items, "Protein_g")
         /\ last.body.totals.total_fat = SumOfMatched(df, items, "Fat_g")
         /\ last.body.totals.total_carbs = SumOfMatched(df, items, "Carbs_g")
         /\ last.body.advice.items = Len(items)
         /\ last.body.advice.calories = last.body.totals.total_calories

\* An unknown name before a known one: the request succeeds with the known
\* item's values alone, 3 times 100 calories, and an advice counting both.
C4_Witness ==
  /\ last.op = "log_meal" /\ last.status = 200
  /\ last.req.meal_items = <<ItemUnknown, ItemTextQuantity>>
  /\ last.body.totals.total_calories = 300
  /\ last.body.totals.total_carbs = 45
  /\ last.body.advice.items = 2

HasBadQuantity(items) ==
  \E k \in 1..Len(items) : ~HasValidQuantity(items[k])

\* C5: a log_meal with a quantity that does not parse, at any position,
\* fails as a validation failure: its status is 400 or 422.
C5_BadQuantityIsValidationFailure ==
  (last.op = "log_meal" /\ HasBadQuantity(last.req.meal_items))
    => last.status \in {400, 422}

\* The 8 columns of the export, in order.
FixedHeader ==
  <<"timestamp", "food_name", "quantity", "total_calories", "total_protein",
    "total_fat", "total_carbs", "advice">>

\* C6: export_history answers 404 exactly when the meal history reads as
\* empty (absent or corrupt file included); otherwise it answers with a CSV
\* whose header is the 8 fixed columns in order; it never changes a log.
C6_ExportHeaderOr404 ==
  [][ last'.op = "export_history" =>
        /\ files' = files
        /\ (last'.status = 404) <=> (MealLog(files) = <<>>)
        /\ MealLog(files) # <<>> =>
             /\ last'.status = 200
             /\ last'.body.header = FixedHeader
             /\ Len(last'.body.rows) = Len(MealLog(files)) ]_vars

\* An export of a history whose entries have different fields: one of an
\* earlier run without totals, one written by log_meal without a quantity.
C6_Witness ==
  /\ last.op = "export_history" /\ last.status = 200
  /\ Len(MealLog(files)) = 2
  /\ DOMAIN MealLog(files)[1] # DOMAIN MealLog(files)[2]

\* The rows of the table whose name the item name is a variant of: equal
\* up to letter case and surrounding blanks.
VariantMatches(df, item) ==
  { k \in 1..Len(df.rows) :
      df.rows[k].Food_Item_Lower = strip(lower(item.item.s)) }

\* C7: an item whose name differs from a table name only in letter case or
\* in surrounding blanks is looked up by log_meal and contributes its
\* quantity times the record's calories.
C7_VariantNamesAreFound ==
  LET items == last.req.meal_items
      df == ai.nutrition_df
  IN  ( /\ last.op = "log_meal" /\ last.status = 200 /\ Len(items) = 1
        /\ HasName(items[1]) /\ VariantMatches(df, items[1]) # {} )
      => \E k \in VariantMatches(df, items[1]) :
           last.body.totals.total_calories =
             QuantityOf(items[1]) * df.rows[k].Calories

EmptyQuery == last.req.s = <<>>
NoRows == ai.nutrition_df.rows = <<>>

AllIdle == \A w \in Workers : workers[w].pc = "idle"

C10_OnlyTwoWriters ==
  [][ IF last'.op = "log_feedback"
      THEN /\ Len(FeedbackLog(files')) = Len(FeedbackLog(files)) + 1
           /\ IsPrefix(FeedbackLog(files), FeedbackLog(files'))
           /\ files'[MEAL_LOG_FILE] = files[MEAL_LOG_FILE]
      ELSE IF /\ last'.op = "log_meal" /\ last'.status = 200
              /\ ~last'.req.quick_check
      THEN /\ Len(MealLog(files')) = Len(MealLog(files)) + 1
           /\ IsPrefix(MealLog(files), MealLog(files'))
           /\ files'[FEEDBACK_LOG_FILE] = files[FEEDBACK_LOG_FILE]
      ELSE files' = files ]_vars

\* Both logs have been appended to, and a failed log_meal came last.
C10_Witness ==
  /\ Len(hist[MEAL_LOG_FILE].saved) >= 1
  /\ Len(hist[FEEDBACK_LOG_FILE].saved) >= 1
  /\ last.op = "log_meal" /\ last.status = 500 /\ ~last.req.quick_check
====
